---- MODULE Spec2Model ----
(***************************************************************************)
(* Model of the dotfiles-visualizer resolution engine: the conditional     *)
(* evaluators (TemplateParser, IgnoreParser), the ignore-file resolver,    *)
(* the path mapper (FileMapper), the two deployment resolvers              *)
(* (GET /api/files, POST /api/simulate) and the simulation diff.           *)
(*                                                                         *)
(* JavaScript strings are TLA+ strings; TLC evaluates Len, SubSeq and \o   *)
(* on them, so the string methods of the source are written out here as    *)
(* operators over characters.                                              *)
(***************************************************************************)
EXTENDS Integers, Sequences, FiniteSets, TLC

(***************************************************************************)
(* Bounds of the model.                                                    *)
(***************************************************************************)
MaxFiles == 2
MaxOperands == 2
MaxChanges == 1
MaxPatterns == 2

(***************************************************************************)
(* JavaScript string methods.                                              *)
(***************************************************************************)
\* the characters of s at positions from..to (1-based), cut to the string's extent
slice(s, from, to) ==
    LET a == IF from < 1 THEN 1 ELSE from
        b == IF to > Len(s) THEN Len(s) ELSE to
    IN IF a > b THEN "" ELSE SubSeq(s, a, b)

charAt(s, i) == slice(s, i, i)

substring(s, n) == slice(s, n + 1, Len(s))

startsWith(s, p) == Len(s) >= Len(p) /\ slice(s, 1, Len(p)) = p

endsWith(s, p) == Len(s) >= Len(p) /\ slice(s, Len(s) - Len(p) + 1, Len(s)) = p

\* position (1-based) of the first occurrence of p in s at or after from, 0 if none
RECURSIVE indexOf(_, _, _)
indexOf(s, p, from) ==
    IF from + Len(p) - 1 > Len(s) THEN 0
    ELSE IF SubSeq(s, from, from + Len(p) - 1) = p THEN from
    ELSE indexOf(s, p, from + 1)

includes(s, p) == indexOf(s, p, 1) # 0

WhiteSpace == {" ", "\t", "\r", "\n"}

WordChars ==
    {"a","b","c","d","e","f","g","h","i","j","k","l","m",
     "n","o","p","q","r","s","t","u","v","w","x","y","z",
     "A","B","C","D","E","F","G","H","I","J","K","L","M",
     "N","O","P","Q","R","S","T","U","V","W","X","Y","Z",
     "0","1","2","3","4","5","6","7","8","9","_"}

\* number of leading characters of s, from position i on, that lie in set cs
RECURSIVE runLength(_, _, _)
runLength(s, i, cs) ==
    IF i > Len(s) \/ charAt(s, i) \notin cs THEN 0 ELSE 1 + runLength(s, i + 1, cs)

\* number of leading characters of s, from position i on, other than c
RECURSIVE runLengthNot(_, _, _)
runLengthNot(s, i, c) ==
    IF i > Len(s) \/ charAt(s, i) = c THEN 0 ELSE 1 + runLengthNot(s, i + 1, c)

\* number of leading characters of s, from position i on, that lie outside cs
RECURSIVE runLengthNotIn(_, _, _)
runLengthNotIn(s, i, cs) ==
    IF i > Len(s) \/ charAt(s, i) \in cs THEN 0 ELSE 1 + runLengthNotIn(s, i + 1, cs)

RECURSIVE trimEnd(_)
trimEnd(s) ==
    IF Len(s) > 0 /\ charAt(s, Len(s)) \in WhiteSpace
    THEN trimEnd(slice(s, 1, Len(s) - 1)) ELSE s

trim(s) == trimEnd(substring(s, runLength(s, 1, WhiteSpace)))

\* s.split(sep) for a one-character separator
RECURSIVE split(_, _)
split(s, sep) ==
    LET i == indexOf(s, sep, 1)
    IN IF i = 0 THEN <<s>>
       ELSE <<slice(s, 1, i - 1)>> \o split(substring(s, i), sep)

RECURSIVE join(_, _)
join(parts, sep) ==
    IF Len(parts) = 0 THEN ""
    ELSE IF Len(parts) = 1 THEN parts[1]
    ELSE parts[1] \o sep \o join(Tail(parts), sep)

\* s.replace(/from/g, to) for a literal, non-empty from
RECURSIVE replaceAll(_, _, _)
replaceAll(s, from, to) ==
    LET i == indexOf(s, from, 1)
    IN IF i = 0 THEN s
       ELSE slice(s, 1, i - 1) \o to \o replaceAll(substring(s, i + Len(from) - 1), from, to)

(***************************************************************************)
(* JavaScript values.  A value is a record [t, v]: its typeof-like tag and *)
(* its content written as a string, so that values of every type can be    *)
(* compared with one another.  A reference to a built-in member of         *)
(* Object.prototype (a function) carries the member's name.                *)
(***************************************************************************)
JBool(b) == [t |-> "boolean", v |-> IF b THEN "true" ELSE "false"]
JStr(s) == [t |-> "string", v |-> s]
JUndefined == [t |-> "undefined", v |-> ""]
JFunction(name) == [t |-> "function", v |-> name]

\* ToBoolean
Truthy(x) ==
    CASE x.t = "boolean" -> x.v = "true"
      [] x.t = "string" -> x.v # ""
      [] x.t = "function" -> TRUE
      [] OTHER -> FALSE

\* a ?? b
Nullish(x, y) == IF x.t = "undefined" \/ x.t = "null" THEN y ELSE x

NoProps == [p \in {} |-> JUndefined]

(***************************************************************************)
(* The state.                                                              *)
(***************************************************************************)
VARIABLES
    config,           \* the parsed upstream configuration (YAMLParser.parse)
    ignoreContent,    \* the upstream ignore file
    allSourceFiles,   \* the upstream recursive file listing
    heap,             \* properties added at run time to Object.prototype
                      \* ("__proto__") and to its built-in members
    op,               \* the operation that ran last
    platform,         \* its target platform
    moduleChanges,    \* its moduleChanges payload
    expression,       \* its expression argument
    keyword,          \* how the argument was put together: the leading keyword
    operands,         \* ... and the operands that follow it
    status,           \* HTTP status of the response (0: not a request)
    files,            \* GET /api/files: the returned mappings
    baseConfig,       \* POST /api/simulate: baseConfig after applyModuleChanges
    simulatedConfig,  \* POST /api/simulate: applyModuleChanges' result
    baseFiles,        \* POST /api/simulate: getFilesForConfig(baseConfig)
    simulatedFiles,   \* POST /api/simulate: getFilesForConfig(simulatedConfig)
    filesAdded,       \* POST /api/simulate: response fields
    filesRemoved,
    totalFilesBefore,
    totalFilesAfter,
    value,            \* result of an evaluateCondition call
    patterns,         \* the ignore patterns of IgnoreParser.parse (for a simulation:
                      \* those of the base configuration)
    simulatedPatterns,\* POST /api/simulate: those of the simulated configuration
    lineNo,           \* IgnoreParser.parse: the number of lines the loop has read
    conditionStack,   \* IgnoreParser.parse: its conditionStack
    payload,          \* POST /api/simulate: the kind of request body received
    failure,          \* the upstream fetch that fails during the request
    fetched,          \* the upstream resources the request has fetched
    loading,          \* simulator page: the loading state
    pageConfig,       \* simulator page: the config state, "null" or "loaded"; the
                      \* module objects of config.data.modules are moduleObjects
    fetchedModules,   \* the enabled flags /api/config delivered to the page
    moduleObjects,    \* the enabled field of the module objects response.json()
                      \* created, by module
    simulatedModules, \* simulator page: the object the simulatedModules state
                      \* refers to: "null", "config" (config.data.modules itself)
                      \* or "copy" (a shallow copy); the entries of each refer
                      \* to moduleObjects
    pagePlatform,     \* simulator page: the platform state
    simulationResult, \* simulator page: the simulationResult state
    simulating,       \* simulator page: the simulating state
    error,            \* simulator page: the error state
    inFlight,         \* /api/simulate requests sent and not answered, oldest first
    latestOutcome,    \* what became of the request sent last
    handler           \* simulator page: the handler that ran last

vars == <<config, ignoreContent, allSourceFiles, heap, op, platform, moduleChanges,
          expression, keyword, operands, status, files, baseConfig, simulatedConfig,
          baseFiles, simulatedFiles, filesAdded, filesRemoved, totalFilesBefore,
          totalFilesAfter, value, patterns, simulatedPatterns, lineNo,
          conditionStack, payload, failure, fetched, loading, pageConfig,
          fetchedModules, moduleObjects, simulatedModules, pagePlatform,
          simulationResult, simulating, error, inFlight, latestOutcome, handler>>

pageVars == <<loading, pageConfig, fetchedModules, moduleObjects, simulatedModules,
              pagePlatform, simulationResult, simulating, error, inFlight,
              latestOutcome, handler>>

Platform == {"linux", "darwin", "windows"}

(***************************************************************************)
(* Property lookup.  config.data.modules is a plain object: a name that is *)
(* not an own key is looked up on Object.prototype, whose built-in members *)
(* are functions, and whose accessor __proto__ yields Object.prototype     *)
(* itself.  The only property the program ever adds to these objects is    *)
(* `enabled`, which is not looked up as a module name here.                *)
(***************************************************************************)
ObjectPrototypeMembers ==
    {"__proto__", "constructor", "toString", "valueOf", "hasOwnProperty"}

\* x[p] for an object or function x whose own properties are props
getProperty(props, p, h) ==
    IF p \in DOMAIN props THEN props[p]
    ELSE IF p \in DOMAIN h["__proto__"] THEN h["__proto__"][p]
    ELSE IF p \in ObjectPrototypeMembers THEN JFunction(p)
    ELSE JUndefined

\* modules[name]: kind is what typeof says of it, truthy its ToBoolean, props
\* its own properties
getModule(modules, name, h) ==
    IF name \in DOMAIN modules
    THEN [kind |-> "object", truthy |-> TRUE, props |-> modules[name]]
    ELSE IF name = "__proto__"
    THEN [kind |-> "object", truthy |-> TRUE, props |-> h["__proto__"]]
    ELSE IF name \in ObjectPrototypeMembers
    THEN [kind |-> "function", truthy |-> TRUE, props |-> h[name]]
    ELSE [kind |-> "undefined", truthy |-> FALSE, props |-> NoProps]

\* name in modules
hasProperty(modules, name) ==
    name \in DOMAIN modules \/ name \in ObjectPrototypeMembers

\* modules[name]?.enabled
\* modules[name]?.enabled read as true for every name
moduleEnabled_always(modules, name, h) == JBool(TRUE)

moduleEnabled(modules, name, h) ==
    LET m == getModule(modules, name, h)
    IN IF m.kind = "undefined" THEN JUndefined ELSE getProperty(m.props, "enabled", h)

(***************************************************************************)
(* The regular expressions of the two evaluators.  Each operator returns   *)
(* [found, name, property]: whether the leftmost match exists and its      *)
(* capture groups.                                                         *)
(***************************************************************************)
NoMatch == [found |-> FALSE, name |-> "", property |-> ""]

\* /eq\s+\.chezmoi\.os\s+"(\w+)"/ tried at position i: the captured name, "" if no match
eqOsAt(s, i) ==
    LET a == runLength(s, i + 2, WhiteSpace)
        j == i + 2 + a
        b == runLength(s, j + 11, WhiteSpace)
        k == j + 11 + b
        w == runLength(s, k + 1, WordChars)
    IN IF /\ a >= 1
          /\ slice(s, j, j + 10) = ".chezmoi.os"
          /\ b >= 1
          /\ charAt(s, k) = "\""
          /\ w >= 1
          /\ charAt(s, k + 1 + w) = "\""
       THEN slice(s, k + 1, k + w) ELSE ""

RECURSIVE matchEqOsFrom(_, _)
matchEqOsFrom(s, from) ==
    LET i == indexOf(s, "eq", from)
    IN IF i = 0 THEN NoMatch
       ELSE IF eqOsAt(s, i) # "" THEN [found |-> TRUE, name |-> eqOsAt(s, i), property |-> ""]
       ELSE matchEqOsFrom(s, i + 1)

matchEqOs(s) == matchEqOsFrom(s, 1)

\* /\.modules\.(\w+)\.enabled/ tried at position i, where ".modules." is
modulesEnabledAt(s, i) ==
    LET w == runLength(s, i + 9, WordChars)
    IN IF w >= 1 /\ slice(s, i + 9 + w, i + 9 + w + 7) = ".enabled"
       THEN slice(s, i + 9, i + 8 + w) ELSE ""

RECURSIVE matchModulesEnabledFrom(_, _)
matchModulesEnabledFrom(s, from) ==
    LET i == indexOf(s, ".modules.", from)
    IN IF i = 0 THEN NoMatch
       ELSE IF modulesEnabledAt(s, i) # ""
       THEN [found |-> TRUE, name |-> modulesEnabledAt(s, i), property |-> ""]
       ELSE matchModulesEnabledFrom(s, i + 1)

matchModulesEnabled(s) == matchModulesEnabledFrom(s, 1)

\* /\.modules\.(\w+)\.(\w+)/ tried at position i, where ".modules." is
modulesPropertyAt(s, i) ==
    LET w == runLength(s, i + 9, WordChars)
        q == i + 9 + w
        u == runLength(s, q + 1, WordChars)
    IN IF w >= 1 /\ charAt(s, q) = "." /\ u >= 1
       THEN [found |-> TRUE, name |-> slice(s, i + 9, q - 1),
             property |-> slice(s, q + 1, q + u)]
       ELSE NoMatch

RECURSIVE matchModulesPropertyFrom(_, _)
matchModulesPropertyFrom(s, from) ==
    LET i == indexOf(s, ".modules.", from)
    IN IF i = 0 THEN NoMatch
       ELSE IF modulesPropertyAt(s, i).found THEN modulesPropertyAt(s, i)
       ELSE matchModulesPropertyFrom(s, i + 1)

matchModulesProperty(s) == matchModulesPropertyFrom(s, 1)

(***************************************************************************)
(* TemplateParser.splitExpression: the character loop, with its three      *)
(* locals parts, current and inQuotes.                                     *)
(***************************************************************************)
RECURSIVE splitLoop(_, _, _, _, _)
splitLoop(expr, i, parts, current, inQuotes) ==
    IF i > Len(expr)
    THEN IF trim(current) # "" THEN Append(parts, trim(current)) ELSE parts
    ELSE LET char == charAt(expr, i)
             \* the characters from i on that are neither a quote nor a space all
             \* take the last branch of the loop: they are appended in one step
             n == runLengthNotIn(expr, i, {"\"", " "})
         IN IF char = "\""
            THEN splitLoop(expr, i + 1, parts, current \o char, ~inQuotes)
            ELSE IF char = " " /\ ~inQuotes /\ trim(current) # ""
            THEN IF startsWith(current, ".") \/ startsWith(current, "eq")
                    \/ startsWith(current, "not")
                 THEN splitLoop(expr, i + 1, Append(parts, trim(current)), "", inQuotes)
                 ELSE splitLoop(expr, i + 1, parts, current \o char, inQuotes)
            ELSE IF char = " "
            THEN splitLoop(expr, i + 1, parts, current \o char, inQuotes)
            ELSE splitLoop(expr, i + n, parts, current \o slice(expr, i, i + n - 1),
                           inQuotes)

splitExpression(expr) ==
    LET parts == splitLoop(expr, 1, <<>>, "", FALSE)
    IN IF Len(parts) > 0 THEN parts ELSE <<expr>>

(***************************************************************************)
(* TemplateParser.evaluateCondition.  The result is the JavaScript value   *)
(* the function returns (a module property is returned as it is).          *)
(***************************************************************************)
\* the default with unknown expressions rejected
unknownExpression_closed == JBool(FALSE)

\* Default: true (allow everything we don't understand)
unknownExpression == JBool(TRUE)

\* !value with the identity in place of the negation
negate_identity(v) == JBool(Truthy(v))

\* !value
negate(v) == JBool(~Truthy(v))

\* platform === targetPlatform taken as true whenever the expression matches
platformEquals_always(plat, targetPlatform) == JBool(TRUE)

\* platform === targetPlatform
platformEquals(plat, targetPlatform) == JBool(plat = targetPlatform)

RECURSIVE TemplateParser_evaluateCondition(_, _, _, _)
TemplateParser_evaluateCondition(expr, cfg, plat, h) ==
    LET trimmed == trim(expr)
        eqm == matchEqOs(trimmed)
        enm == matchModulesEnabled(trimmed)
        prm == matchModulesProperty(trimmed)
        module == getModule(cfg.data.modules, prm.name, h)
    IN IF startsWith(trimmed, "not ")
       THEN negate(TemplateParser_evaluateCondition(
                       trim(substring(trimmed, 4)), cfg, plat, h))
       ELSE IF startsWith(trimmed, "and ")
       THEN LET parts == splitExpression(trim(substring(trimmed, 4)))
            IN JBool(\A n \in 1..Len(parts) :
                       Truthy(TemplateParser_evaluateCondition(parts[n], cfg, plat, h)))
       ELSE IF startsWith(trimmed, "or ")
       THEN LET parts == splitExpression(trim(substring(trimmed, 3)))
            IN JBool(\E n \in 1..Len(parts) :
                       Truthy(TemplateParser_evaluateCondition(parts[n], cfg, plat, h)))
       ELSE IF includes(trimmed, "eq .chezmoi.os") /\ eqm.found
       THEN platformEquals(plat, eqm.name)
       ELSE IF includes(trimmed, ".modules.") /\ enm.found
       THEN Nullish(moduleEnabled(cfg.data.modules, enm.name, h), JBool(FALSE))
       ELSE IF startsWith(trimmed, ".modules.") /\ prm.found /\ module.kind = "object"
       THEN Nullish(getProperty(module.props, prm.property, h), JBool(FALSE))
       ELSE unknownExpression

(***************************************************************************)
(* IgnoreParser: its own regular expressions, extractCondition and         *)
(* evaluateCondition.                                                      *)
(***************************************************************************)
\* /not\s+\.modules\.(\w+)\.(\w+)/
RECURSIVE matchNotModulesPropertyFrom(_, _)
matchNotModulesPropertyFrom(s, from) ==
    LET i == indexOf(s, "not", from)
        j == i + 3 + runLength(s, i + 3, WhiteSpace)
    IN IF i = 0 THEN NoMatch
       ELSE IF j > i + 3 /\ slice(s, j, j + 8) = ".modules." /\ modulesPropertyAt(s, j).found
       THEN modulesPropertyAt(s, j)
       ELSE matchNotModulesPropertyFrom(s, i + 1)

matchNotModulesProperty(s) == matchNotModulesPropertyFrom(s, 1)

\* /not\s+\.modules\.(\w+)\.enabled/
RECURSIVE matchNotModulesEnabledFrom(_, _)
matchNotModulesEnabledFrom(s, from) ==
    LET i == indexOf(s, "not", from)
        j == i + 3 + runLength(s, i + 3, WhiteSpace)
    IN IF i = 0 THEN NoMatch
       ELSE IF j > i + 3 /\ slice(s, j, j + 8) = ".modules." /\ modulesEnabledAt(s, j) # ""
       THEN [found |-> TRUE, name |-> modulesEnabledAt(s, j), property |-> ""]
       ELSE matchNotModulesEnabledFrom(s, i + 1)

matchNotModulesEnabled(s) == matchNotModulesEnabledFrom(s, 1)

LineTerminators == {"\n", "\r"}

\* the first position e >= from, not beyond last, after which \s*\}\} matches; 0 if none
RECURSIVE firstClose(_, _, _)
firstClose(line, from, last) ==
    IF from > last THEN 0
    ELSE LET t == runLength(line, from + 1, WhiteSpace)
         IN IF slice(line, from + 1 + t, from + 2 + t) = "}}" THEN from
            ELSE firstClose(line, from + 1, last)

\* the lazy group (.+?) started at st, st - 1, ... down to low: the first start,
\* from the right, whose group can be closed; [found, text]
RECURSIVE lazyGroup(_, _, _)
lazyGroup(line, st, low) ==
    IF st < low THEN [found |-> FALSE, text |-> ""]
    ELSE LET last == st + runLengthNotIn(line, st, LineTerminators) - 1
             e == firstClose(line, st, last)
         IN IF e # 0 THEN [found |-> TRUE, text |-> slice(line, st, e)]
            ELSE lazyGroup(line, st - 1, low)

\* /\{\{-?\s*if\s+(.+?)\s*\}\}/ tried at position i, where "{{" is: [found, text]
\* with text the capture group.  \s+ is greedy and gives characters back one
\* at a time; the lazy group then takes the shortest text \s*\}\} can follow.
ifBlockAt(line, i) ==
    LET d == IF charAt(line, i + 2) = "-" THEN 1 ELSE 0
        j == i + 2 + d + runLength(line, i + 2 + d, WhiteSpace)
        k == runLength(line, j + 2, WhiteSpace)
    IN IF slice(line, j, j + 1) = "if" /\ k >= 1
       THEN lazyGroup(line, j + 2 + k, j + 3)
       ELSE [found |-> FALSE, text |-> ""]

RECURSIVE extractConditionFrom(_, _)
extractConditionFrom(line, from) ==
    LET i == indexOf(line, "{{", from)
    IN IF i = 0 THEN ""
       ELSE IF ifBlockAt(line, i).found THEN trim(ifBlockAt(line, i).text)
       ELSE extractConditionFrom(line, i + 1)

extractCondition(line) == extractConditionFrom(line, 1)

IgnoreParser_evaluateCondition(condition, cfg, plat, h) ==
    LET eqm == matchEqOs(condition)
        npm == matchNotModulesProperty(condition)
        nem == matchNotModulesEnabled(condition)
        prm == matchModulesProperty(condition)
        enm == matchModulesEnabled(condition)
        mod(name) == getModule(cfg.data.modules, name, h)
    IN IF includes(condition, "eq .chezmoi.os") /\ eqm.found
       THEN plat = eqm.name
       ELSE IF includes(condition, "not .modules.") /\ ~includes(condition, ".enabled")
               /\ npm.found
       THEN IF mod(npm.name).kind = "object"
            THEN ~Truthy(getProperty(mod(npm.name).props, npm.property, h))
            ELSE TRUE
       ELSE IF includes(condition, "not .modules.") /\ nem.found
       THEN ~(mod(nem.name).truthy /\ Truthy(moduleEnabled(cfg.data.modules, nem.name, h)))
       ELSE IF includes(condition, ".modules.") /\ ~includes(condition, ".enabled")
               /\ prm.found
       THEN IF mod(prm.name).kind = "object"
            THEN Truthy(getProperty(mod(prm.name).props, prm.property, h))
            ELSE FALSE
       ELSE IF includes(condition, ".modules.") /\ enm.found
       THEN mod(enm.name).truthy /\ Truthy(moduleEnabled(cfg.data.modules, enm.name, h))
       ELSE TRUE

(***************************************************************************)
(* IgnoreParser.handleConditional and IgnoreParser.parse.  The condition   *)
(* stack is a sequence whose last element is the top.                      *)
(***************************************************************************)
\* the state pushed at else, without the negation of the state popped
elseState_same(parentState, currentState) == parentState /\ currentState

elseState_parent(parentState, currentState) == parentState

\* the state pushed at else: parentState && !currentState
elseState(parentState, currentState) == parentState /\ ~currentState

ifState_own(parentState, result) == result

\* the state pushed at if: parentState && result
ifState(parentState, result) == parentState /\ result

canPop_always(stack) == TRUE

\* the guard of the pop at end: conditionStack.length > 1
canPop(stack) == Len(stack) > 1

handleConditional(line, stack, cfg, plat, h) ==
    LET trimmed == trim(line)
        top == stack[Len(stack)]
        pop == SubSeq(stack, 1, Len(stack) - 1)
    IN IF includes(trimmed, "{{- if ")
       THEN Append(stack,
                ifState(top, IgnoreParser_evaluateCondition(extractCondition(trimmed),
                                                            cfg, plat, h)))
       ELSE IF includes(trimmed, "{{- else")
       THEN IF Len(stack) > 1
            THEN Append(pop, elseState(stack[Len(stack) - 1], top))
            ELSE stack
       ELSE IF includes(trimmed, "{{- end")
       THEN IF canPop(stack) THEN pop ELSE stack
       ELSE stack

isComment_never(trimmed) == FALSE

\* trimmed.startsWith('#')
isComment(trimmed) == startsWith(trimmed, "#")

\* one iteration of the loop of parse over a line: the new [stack, patterns]
parseLine(line, st, cfg, plat, h) ==
    LET trimmed == trim(line)
    IN IF trimmed = "" THEN st
       ELSE IF startsWith(trimmed, "{{-")
       THEN [stack |-> handleConditional(trimmed, st.stack, cfg, plat, h),
             patterns |-> st.patterns]
       ELSE IF isComment(trimmed) THEN st
       ELSE IF st.stack[Len(st.stack)]
       THEN [stack |-> st.stack, patterns |-> Append(st.patterns, trimmed)]
       ELSE st

RECURSIVE parseLoop(_, _, _, _, _, _)
parseLoop(lines, n, st, cfg, plat, h) ==
    IF n > Len(lines) THEN st
    ELSE parseLoop(lines, n + 1, parseLine(lines[n], st, cfg, plat, h), cfg, plat, h)

IgnoreParser_parse(content, cfg, plat, h) ==
    parseLoop(split(content, "\n"), 1, [stack |-> <<TRUE>>, patterns |-> <<>>],
              cfg, plat, h).patterns

getIgnorePatterns(content, cfg, plat, h) == IgnoreParser_parse(content, cfg, plat, h)

(***************************************************************************)
(* IgnoreParser.shouldIgnore: the glob is rewritten into the source of a   *)
(* regular expression by five replacements in the order of the code, and   *)
(* the expression is then run on the path.  The expressions this produces  *)
(* from globs over [A-Za-z0-9_/.*?-] consist of [^/]* , \.* , \. and       *)
(* literal characters.                                                     *)
(***************************************************************************)
globToRegex(pattern) ==
    replaceAll(
      replaceAll(
        replaceAll(
          replaceAll(
            replaceAll(pattern, "**", "___DOUBLESTAR___"),
            "*", "[^/]*"),
          "___DOUBLESTAR___", ".*"),
        "?", "."),
      ".", "\\.")

\* does the expression re, read from position i, match path from position j on;
\* anchoredEnd says whether the expression ends in $
RECURSIVE regexMatch(_, _, _, _, _)
regexMatch(re, i, path, j, anchoredEnd) ==
    IF i > Len(re) THEN (~anchoredEnd \/ j > Len(path))
    ELSE IF slice(re, i, i + 4) = "[^/]*"
    THEN \E n \in 0..runLengthNot(path, j, "/") :
             regexMatch(re, i + 5, path, j + n, anchoredEnd)
    ELSE IF slice(re, i, i + 2) = "\\.*"
    THEN \E n \in 0..runLength(path, j, {"."}) :
             regexMatch(re, i + 3, path, j + n, anchoredEnd)
    ELSE IF slice(re, i, i + 1) = "\\."
    THEN charAt(path, j) = "." /\ regexMatch(re, i + 2, path, j + 1, anchoredEnd)
    ELSE IF slice(re, i, i + 1) = ".*"
    THEN \E n \in 0..(Len(path) - j + 1) : regexMatch(re, i + 2, path, j + n, anchoredEnd)
    ELSE IF charAt(re, i) = "."
    THEN j <= Len(path) /\ regexMatch(re, i + 1, path, j + 1, anchoredEnd)
    ELSE charAt(path, j) = charAt(re, i) /\ regexMatch(re, i + 1, path, j + 1, anchoredEnd)

IgnoreParser_shouldIgnore(filePath, ignorePatterns) ==
    \E n \in 1..Len(ignorePatterns) :
        regexMatch(globToRegex(ignorePatterns[n]), 1, filePath, 1, FALSE)

(***************************************************************************)
(* FileMapper.                                                             *)
(***************************************************************************)
\* part.replace(/^dot_/, '.')
\* part.replace(/^dot_/, '.') leaving the part as it is
replaceDot_keep(part) == part

replaceDot(part) == IF startsWith(part, "dot_") THEN "." \o substring(part, 4) ELSE part

mapSeq(Op(_), sq) == [n \in 1..Len(sq) |-> Op(sq[n])]

\* the home prefix given to paths that begin with a dot only
homePrefix_dotOnly(deployPath) ==
    IF startsWith(deployPath, ".") THEN "~/" \o deployPath ELSE deployPath

\* Prepend home directory for root-level files
homePrefix(deployPath) ==
    IF ~startsWith(deployPath, "/") /\ ~startsWith(deployPath, ".")
    THEN "~/" \o deployPath
    ELSE IF startsWith(deployPath, ".") THEN "~/" \o deployPath
    ELSE deployPath

\* the Partial<FileMapping> of mapFile: requiredModules and platforms are not set
mapFile(sourcePath) ==
    LET pathParts == split(sourcePath, "/")
        filename0 == pathParts[Len(pathParts)]
        dirPath == SubSeq(pathParts, 1, Len(pathParts) - 1)
        isExecutable == startsWith(filename0, "executable_")
        filename1 == IF isExecutable THEN substring(filename0, 11) ELSE filename0
        isTemplate == endsWith(filename1, ".tmpl")
        filename == IF isTemplate THEN slice(filename1, 1, Len(filename1) - 5) ELSE filename1
        modifiedPath == join(Append(dirPath, filename), "/")
        dotted == join(mapSeq(replaceDot, split(modifiedPath, "/")), "/")
        deployPath == homePrefix(dotted)
    IN [sourcePath |-> sourcePath, deployPath |-> deployPath,
        isTemplate |-> isTemplate, isExecutable |-> isExecutable]

inferModules(sourcePath) ==
    (IF includes(sourcePath, "shell/") \/ includes(sourcePath, "dot_bashrc")
        \/ includes(sourcePath, "dot_zshrc") THEN <<"shell">> ELSE <<>>)
    \o (IF includes(sourcePath, "Code/User/") THEN <<"vscode">> ELSE <<>>)
    \o (IF includes(sourcePath, "PowerShell/") THEN <<"powershell">> ELSE <<>>)
    \o (IF includes(sourcePath, "start_menu") THEN <<"start_menu">> ELSE <<>>)
    \o (IF includes(sourcePath, "gitconfig") THEN <<"git">> ELSE <<>>)
    \o (IF includes(sourcePath, "smart-search") \/ includes(sourcePath, "smart_search")
        THEN <<"smart_search">> ELSE <<>>)

inferPlatforms(sourcePath) ==
    IF includes(sourcePath, "PowerShell/") THEN <<"windows">>
    ELSE IF includes(sourcePath, "dot_bashrc") \/ includes(sourcePath, "dot_zshrc")
    THEN <<"linux", "darwin">>
    ELSE IF includes(sourcePath, "Code/User/") THEN <<"linux", "darwin", "windows">>
    ELSE IF includes(sourcePath, "bin/executable_") \/ includes(sourcePath, "scripts/")
    THEN <<"linux", "darwin">>
    ELSE <<"linux", "darwin", "windows">>

\* buildFileMapping(sourcePath) as the routes call it, without explicit metadata
buildFileMapping(sourcePath) ==
    LET baseMapping == mapFile(sourcePath)
    IN [sourcePath |-> sourcePath, deployPath |-> baseMapping.deployPath,
        isTemplate |-> baseMapping.isTemplate, isExecutable |-> baseMapping.isExecutable,
        requiredModules |-> inferModules(sourcePath),
        platforms |-> inferPlatforms(sourcePath)]

Range(sq) == {sq[n] : n \in 1..Len(sq)}

\* sq.filter(Keep)
RECURSIVE filter(_, _)
filter(Keep(_), sq) ==
    IF Len(sq) = 0 THEN <<>>
    ELSE (IF Keep(sq[1]) THEN <<sq[1]>> ELSE <<>>) \o filter(Keep, Tail(sq))

(***************************************************************************)
(* GET /api/files: the filter loop.                                        *)
(***************************************************************************)
filesSkip(sourcePath) ==
    \/ endsWith(sourcePath, "/")
    \/ sourcePath = ".git"
    \/ startsWith(sourcePath, ".git/")
    \/ sourcePath \in {"LICENSE", "README.md", "CLAUDE.md"}
    \/ startsWith(sourcePath, "docs/")
    \/ sourcePath \in {".gitignore", ".pre-commit-config.yaml", ".secrets.baseline", "Makefile"}

\* deployPath.replace(/^~\//, '')
deployPathForIgnore(deployPath) ==
    IF startsWith(deployPath, "~/") THEN substring(deployPath, 2) ELSE deployPath

\* filesKeep without the platform check
filesKeep_anyPlatform(fileMapping, ignorePatterns, cfg, plat, h) ==
    /\ ~IgnoreParser_shouldIgnore(deployPathForIgnore(fileMapping.deployPath), ignorePatterns)
    /\ \A n \in 1..Len(fileMapping.requiredModules) :
           Truthy(moduleEnabled(cfg.data.modules, fileMapping.requiredModules[n], h))

filesKeep(fileMapping, ignorePatterns, cfg, plat, h) ==
    /\ ~IgnoreParser_shouldIgnore(deployPathForIgnore(fileMapping.deployPath), ignorePatterns)
    /\ plat \in Range(fileMapping.platforms)
    /\ \A n \in 1..Len(fileMapping.requiredModules) :
           Truthy(moduleEnabled(cfg.data.modules, fileMapping.requiredModules[n], h))

\* the loop over allSourceFiles, given the ignorePatterns computed before it
getFiles(sourceFiles, ignorePatterns, cfg, plat, h) ==
    LET candidate(sourcePath) == ~filesSkip(sourcePath)
        keep(m) == filesKeep(m, ignorePatterns, cfg, plat, h)
    IN filter(keep, mapSeq(buildFileMapping, filter(candidate, sourceFiles)))

(***************************************************************************)
(* POST /api/simulate: applyModuleChanges, getFilesForConfig, the diff.    *)
(***************************************************************************)
\* JSON.parse(JSON.stringify(x)) of a module record: properties whose value is
\* undefined or a function are left out, the other values are copied
jsonCloneObject(props) ==
    [p \in {q \in DOMAIN props : props[q].t \notin {"undefined", "function"}} |-> props[p]]

jsonClone(cfg) ==
    [data |-> [gitUser |-> cfg.data.gitUser,
               modules |-> [m \in DOMAIN cfg.data.modules |->
                               jsonCloneObject(cfg.data.modules[m])]]]

setEnabled_flip(props, enabled) ==
    [p \in DOMAIN props \cup {"enabled"} |-> IF p = "enabled" THEN JBool(~enabled) ELSE props[p]]

\* obj.enabled = enabled
setEnabled(props, enabled) ==
    [p \in DOMAIN props \cup {"enabled"} |-> IF p = "enabled" THEN JBool(enabled) ELSE props[p]]

\* the loop of applyModuleChanges over the entries of moduleChanges, run on the
\* configuration object target: the object after the loop
assignEnabled(target, changes) ==
    [data |-> [gitUser |-> target.data.gitUser,
               modules |-> [m \in DOMAIN target.data.modules |->
                               IF m \in DOMAIN changes /\ hasProperty(target.data.modules, m)
                               THEN setEnabled(target.data.modules[m], changes[m])
                               ELSE target.data.modules[m]]]]

\* the same loop seen from the built-in objects: for a name that `in` finds on
\* the prototype chain only, the assignment lands on the built-in of that name
assignEnabledHeap(target, changes, h) ==
    [m \in DOMAIN h |->
        IF m \in DOMAIN changes /\ m \notin DOMAIN target.data.modules
           /\ hasProperty(target.data.modules, m)
        THEN setEnabled(h[m], changes[m])
        ELSE h[m]]

\* applyModuleChanges: result is the configuration it returns, base the object
\* it was given as that object is after the call, heap the built-in objects
applyModuleChanges(base, changes, h) ==
    LET newConfig == jsonClone(base)
    IN [result |-> assignEnabled(newConfig, changes),
        base |-> base,
        heap |-> assignEnabledHeap(newConfig, changes, h)]

simulateSkip(sourcePath) ==
    \/ sourcePath = ".chezmoi.yaml"
    \/ sourcePath = ".chezmoiignore"
    \/ includes(sourcePath, ".git/")
    \/ includes(sourcePath, "node_modules/")
    \/ startsWith(sourcePath, ".")

\* fullMapping: the fields mapFile left out get their defaults
fullMapping(sourcePath, plat) ==
    LET fileMapping == mapFile(sourcePath)
    IN [sourcePath |-> sourcePath,
        deployPath |-> IF fileMapping.deployPath # "" THEN fileMapping.deployPath
                       ELSE sourcePath,
        isTemplate |-> fileMapping.isTemplate,
        isExecutable |-> fileMapping.isExecutable,
        platforms |-> IF "platforms" \in DOMAIN fileMapping THEN fileMapping.platforms
                      ELSE <<plat>>,
        requiredModules |-> IF "requiredModules" \in DOMAIN fileMapping
                            THEN fileMapping.requiredModules ELSE <<>>]

simulateKeep_noIgnore(m, ignorePatterns, cfg, plat, h) ==
    /\ plat \in Range(m.platforms)
    /\ \A n \in 1..Len(m.requiredModules) :
           Truthy(moduleEnabled(cfg.data.modules, m.requiredModules[n], h))

simulateKeep(m, ignorePatterns, cfg, plat, h) ==
    /\ ~IgnoreParser_shouldIgnore(m.sourcePath, ignorePatterns)
    /\ plat \in Range(m.platforms)
    /\ \A n \in 1..Len(m.requiredModules) :
           Truthy(moduleEnabled(cfg.data.modules, m.requiredModules[n], h))

\* the loop of getFilesForConfig, given the ignorePatterns computed before it
getFilesForConfig(sourceFiles, ignorePatterns, cfg, plat, h) ==
    LET candidate(sourcePath) == ~simulateSkip(sourcePath)
        full(sourcePath) == fullMapping(sourcePath, plat)
        keep(m) == simulateKeep(m, ignorePatterns, cfg, plat, h)
    IN filter(keep, mapSeq(full, filter(candidate, sourceFiles)))

deployPaths(fs) == {fs[n].deployPath : n \in 1..Len(fs)}

\* diffAdded comparing source paths instead of deploy paths
diffAdded_bySourcePath(base, simulated) ==
    LET baseFilePaths == {base[n].sourcePath : n \in 1..Len(base)}
        absent(f) == f.sourcePath \notin baseFilePaths
    IN filter(absent, simulated)

\* the two filters of the diff
diffAdded(base, simulated) ==
    LET baseFilePaths == deployPaths(base)
        absent(f) == f.deployPath \notin baseFilePaths
    IN filter(absent, simulated)

diffRemoved(base, simulated) ==
    LET simulatedFilePaths == deployPaths(simulated)
        absent(f) == f.deployPath \notin simulatedFilePaths
    IN filter(absent, base)

(***************************************************************************)
(* The inputs the model is run on.                                         *)
(***************************************************************************)
GitUser == [name |-> "Jane Doe", email |-> "jane@example.org"]

Config(modules) == [data |-> [gitUser |-> GitUser, modules |-> modules]]

ShellModule(enabled) == [enabled |-> JBool(enabled), zsh_extras |-> JBool(TRUE)]

ModulesPool ==
    {[m \in {"shell", "git"} |->
         IF m = "shell" THEN ShellModule(sh) ELSE [enabled |-> JBool(gi)]] :
     sh \in BOOLEAN, gi \in BOOLEAN}

ConfigPool == {Config(m) : m \in ModulesPool}

NoConfig == Config([m \in {} |-> NoProps])

\* the upstream listing, in listing order
SourceListing ==
    <<"dot_bashrc", "dot_bashrc.tmpl", "dot_gitconfig.tmpl", "PowerShell/profile.ps1",
      "README.md">>

\* the subsequence of sq at the positions in idx
RECURSIVE pick(_, _, _)
pick(sq, idx, n) ==
    IF n > Len(sq) THEN <<>>
    ELSE (IF n \in idx THEN <<sq[n]>> ELSE <<>>) \o pick(sq, idx, n + 1)

SourceLists ==
    {pick(SourceListing, idx, 1) :
        idx \in {i \in SUBSET (1..Len(SourceListing)) : Cardinality(i) <= MaxFiles}}

IgnorePool ==
    {"",
     "{{- if not .modules.shell.enabled }}\ndot_bashrc.tmpl\n{{- end }}",
     "{{- if eq .chezmoi.os \"windows\" }}\n# Unix\n.bashrc\n{{- else }}\nPowerShell/**\n{{- end }}"}

\* keys of a moduleChanges payload: a configured module, a name that is no
\* module, and a name every object inherits
ChangeKeys == {"shell", "ghost", "__proto__"}

\* a configured module is switched on or off; the other names are sent with true
ModuleChangesPool ==
    {changes \in UNION {[keys -> BOOLEAN] :
                           keys \in {k \in SUBSET ChangeKeys : Cardinality(k) <= MaxChanges}} :
        \A k \in DOMAIN changes : k # "shell" => changes[k]}

NoChanges == [m \in {} |-> FALSE]

CleanHeap == [m \in ObjectPrototypeMembers |-> NoProps]

(***************************************************************************)
(* The server.  A request is handled in one step from the idle state; the  *)
(* response is then sent, which drops everything the request computed.     *)
(* Only the built-in objects of the process outlive a request.             *)
(***************************************************************************)
NoRequest ==
    /\ platform' = ""
    /\ moduleChanges' = NoChanges
    /\ status' = 0
    /\ payload' = ""
    /\ failure' = "none"
    /\ fetched' = {}

NoParse ==
    /\ lineNo' = 0
    /\ conditionStack' = <<>>

NoEvaluation ==
    /\ expression' = ""
    /\ keyword' = ""
    /\ operands' = <<>>
    /\ value' = JUndefined

NoFiles == files' = <<>>

NoSimulation ==
    /\ simulatedPatterns' = <<>>
    /\ baseConfig' = NoConfig
    /\ simulatedConfig' = NoConfig
    /\ baseFiles' = <<>>
    /\ simulatedFiles' = <<>>
    /\ filesAdded' = <<>>
    /\ filesRemoved' = <<>>
    /\ totalFilesBefore' = 0
    /\ totalFilesAfter' = 0

\* null
Null == [null |-> TRUE]

\* the simulator page is not open
PageClosed ==
    /\ loading = FALSE
    /\ pageConfig = "null"
    /\ fetchedModules = << >>
    /\ moduleObjects = << >>
    /\ simulatedModules = "null"
    /\ pagePlatform = "linux"
    /\ simulationResult = Null
    /\ simulating = FALSE
    /\ error = Null
    /\ inFlight = <<>>
    /\ latestOutcome = "none"
    /\ handler = ""

ServerIdle ==
    /\ op = "idle"
    /\ platform = ""
    /\ moduleChanges = NoChanges
    /\ status = 0
    /\ expression = ""
    /\ keyword = ""
    /\ operands = <<>>
    /\ value = JUndefined
    /\ patterns = <<>>
    /\ simulatedPatterns = <<>>
    /\ files = <<>>
    /\ baseConfig = NoConfig
    /\ simulatedConfig = NoConfig
    /\ baseFiles = <<>>
    /\ simulatedFiles = <<>>
    /\ filesAdded = <<>>
    /\ filesRemoved = <<>>
    /\ totalFilesBefore = 0
    /\ totalFilesAfter = 0
    /\ lineNo = 0
    /\ conditionStack = <<>>
    /\ payload = ""
    /\ failure = "none"
    /\ fetched = {}

Idle == ServerIdle /\ PageClosed

Init ==
    /\ config \in ConfigPool
    /\ ignoreContent \in IgnorePool
    /\ allSourceFiles \in SourceLists
    /\ heap = CleanHeap
    /\ Idle

\* what the request of POST /api/simulate carries: a body that is no JSON
\* text, the JSON text null, or an object whose moduleChanges field is absent,
\* null, a string ("yes"), a number (1), an array ([]) or an object
PayloadKinds ==
    {"notJson", "bodyNull", "missing", "null", "string", "number", "array", "object"}

ObjectBody(changes) == [kind |-> "object", moduleChanges |-> changes]

MalformedBody(kind) == [kind |-> kind, moduleChanges |-> NoChanges]

RequestBodies ==
    {ObjectBody(changes) : changes \in ModuleChangesPool}
        \cup {MalformedBody(kind) : kind \in PayloadKinds \ {"object"}}

\* await request.json() and the destructuring of its result throw
bodyThrows(body) == body.kind \in {"notJson", "bodyNull"}

\* typeof moduleChanges
payloadTypeof(body) ==
    CASE body.kind \in {"object", "array", "null"} -> "object"
      [] body.kind = "string" -> "string"
      [] body.kind = "number" -> "number"
      [] OTHER -> "undefined"

\* ToBoolean(moduleChanges)
payloadTruthy(body) == body.kind \in {"object", "array", "string", "number"}

\* !moduleChanges || typeof moduleChanges !== 'object'
invalidModuleChanges(body) == ~payloadTruthy(body) \/ payloadTypeof(body) # "object"

\* the upstream fetch that fails: none, getConfig, getIgnoreFile, or the
\* listing of a directory ("" is the root of the repository)
Failures(sourceFiles) ==
    {"none", "config", "ignore", "list:"}
        \cup {"list:PowerShell" : n \in {i \in DOMAIN sourceFiles :
                                            startsWith(sourceFiles[i], "PowerShell/")}}

\* getFile rethrows what the fetch throws
getFileThrows(fail) == fail \in {"config", "ignore"}

\* getAllSourceFiles: listFiles returns [] for a directory whose listing fails
RECURSIVE listFiles(_, _)
listFiles(sourceFiles, fail) ==
    IF fail = "list:" \/ sourceFiles = <<>> THEN <<>>
    ELSE (IF fail = "list:PowerShell" /\ startsWith(Head(sourceFiles), "PowerShell/")
          THEN <<>> ELSE <<Head(sourceFiles)>>)
         \o listFiles(Tail(sourceFiles), fail)

\* GET /api/files?platform=p while the upstream fetch fail fails
GET_files(p, fail) ==
    /\ op = "idle"
    /\ op' = "files"
    /\ platform' = p
    /\ moduleChanges' = NoChanges
    /\ payload' = ""
    /\ failure' = fail
    /\ IF getFileThrows(fail)
       THEN /\ status' = 500
            /\ fetched' = {"config", "ignore"}
            /\ patterns' = <<>>
            /\ files' = <<>>
       ELSE /\ status' = 200
            /\ fetched' = {"config", "ignore", "list"}
            /\ patterns' = getIgnorePatterns(ignoreContent, config, p, heap)
            /\ files' = getFiles(listFiles(allSourceFiles, fail), patterns', config, p, heap)
    /\ NoSimulation
    /\ NoEvaluation
    /\ NoParse
    /\ UNCHANGED <<config, ignoreContent, allSourceFiles, heap, pageVars>>

\* POST /api/simulate with the given body (platform: p) while the upstream
\* fetch fail fails
POST_simulate(body, p, fail) ==
    /\ op = "idle"
    /\ op' = "simulate"
    /\ platform' = p
    /\ moduleChanges' = body.moduleChanges
    /\ payload' = body.kind
    /\ failure' = fail
    /\ NoFiles
    /\ NoEvaluation
    /\ NoParse
    /\ UNCHANGED <<config, ignoreContent, allSourceFiles, pageVars>>
    /\ IF bodyThrows(body) \/ invalidModuleChanges(body) \/ getFileThrows(fail)
       THEN /\ status' = IF bodyThrows(body) THEN 500
                         ELSE IF invalidModuleChanges(body) THEN 400 ELSE 500
            /\ fetched' = IF bodyThrows(body) \/ invalidModuleChanges(body) THEN {}
                          ELSE {"config", "ignore"}
            /\ patterns' = <<>>
            /\ NoSimulation
            /\ UNCHANGED heap
       ELSE LET applied == applyModuleChanges(config, body.moduleChanges, heap)
                sourceFiles == listFiles(allSourceFiles, fail)
            IN /\ status' = 200
               /\ fetched' = {"config", "ignore", "list"}
               /\ heap' = applied.heap
               /\ baseConfig' = applied.base
               /\ simulatedConfig' = applied.result
               /\ patterns' = getIgnorePatterns(ignoreContent, baseConfig', p, heap')
               /\ baseFiles' = getFilesForConfig(sourceFiles, patterns', baseConfig', p,
                                                 heap')
               /\ simulatedPatterns' = getIgnorePatterns(ignoreContent, simulatedConfig',
                                                         p, heap')
               /\ simulatedFiles' = getFilesForConfig(sourceFiles, simulatedPatterns',
                                                      simulatedConfig', p, heap')
               /\ filesAdded' = diffAdded(baseFiles', simulatedFiles')
               /\ filesRemoved' = diffRemoved(baseFiles', simulatedFiles')
               /\ totalFilesBefore' = Len(baseFiles')
               /\ totalFilesAfter' = Len(simulatedFiles')

\* the response has been sent
Respond ==
    /\ op # "idle"
    /\ op' = "idle"
    /\ NoRequest
    /\ patterns' = <<>>
    /\ NoFiles
    /\ NoSimulation
    /\ NoEvaluation
    /\ NoParse
    /\ UNCHANGED <<config, ignoreContent, allSourceFiles, heap, pageVars>>

Next ==
    \/ \E p \in Platform : GET_files(p, "none")
    \/ \E changes \in ModuleChangesPool, p \in Platform :
          POST_simulate(ObjectBody(changes), p, "none")
    \/ Respond

Spec == Init /\ [][Next]_vars

(***************************************************************************)
(* The server when requests are malformed and upstream fetches fail.       *)
(***************************************************************************)
InitFaults ==
    /\ config \in ConfigPool
    /\ ignoreContent = ""
    /\ allSourceFiles \in SourceLists
    /\ heap = CleanHeap
    /\ Idle

NextFaults ==
    \/ \E p \in Platform, fail \in Failures(allSourceFiles) : GET_files(p, fail)
    \/ \E body \in RequestBodies, p \in Platform, fail \in Failures(allSourceFiles) :
          POST_simulate(body, p, fail)
    \/ Respond

SpecFaults == InitFaults /\ [][NextFaults]_vars

(***************************************************************************)
(* The simulator page.  An event handler, the render it causes and the     *)
(* effects of that render run in one step; the requests the page has sent  *)
(* are answered one at a time, in any order.                               *)
(***************************************************************************)
MaxInFlight == 2

serverVars ==
    <<config, ignoreContent, allSourceFiles, heap, op, platform, moduleChanges,
      expression, keyword, operands, status, files, baseConfig, simulatedConfig,
      baseFiles, simulatedFiles, filesAdded, filesRemoved, totalFilesBefore,
      totalFilesAfter, value, patterns, simulatedPatterns, lineNo, conditionStack,
      payload, failure, fetched>>

\* the modules SimulatorPanel renders a toggle for
PageModules == {"shell", "git"}

\* data.config.data.modules of the /api/config response: the enabled field of
\* each module object
enabledFields(cfg) ==
    [m \in DOMAIN cfg.data.modules |-> Truthy(cfg.data.modules[m]["enabled"])]

\* config.data.modules[m].enabled
configEnabled(m) == moduleObjects[m]

\* simulatedModules[m].enabled: the entries of config.data.modules and of its
\* shallow copies refer to the same module objects
simulatedEnabled(m) == moduleObjects[m]

\* the requestBody simulateConfiguration builds from the module objects and
\* the platform of the render that runs it
requestBody(objects, plat) == [moduleChanges |-> objects, platform |-> plat]

\* simulateConfiguration up to its fetch
simulateConfiguration(objects, plat) ==
    /\ simulating' = TRUE
    /\ error' = Null
    /\ inFlight' = Append(inFlight, requestBody(objects, plat))
    /\ latestOutcome' = "pending"

\* the effect does not run: its dependencies are the ones of the last render
noEffect == UNCHANGED <<simulating, error, inFlight, latestOutcome>>

\* the page shows the toggles, the platform switcher and the reset button
Rendered == ~loading /\ pageConfig = "loaded" /\ simulatedModules # "null"

\* the page has been opened: fetchConfig is waiting for /api/config
InitPage ==
    /\ config \in ConfigPool
    /\ ignoreContent = ""
    /\ allSourceFiles = <<>>
    /\ heap = CleanHeap
    /\ ServerIdle
    /\ loading = TRUE
    /\ pageConfig = "null"
    /\ fetchedModules = << >>
    /\ moduleObjects = << >>
    /\ simulatedModules = "null"
    /\ pagePlatform = "linux"
    /\ simulationResult = Null
    /\ simulating = FALSE
    /\ error = Null
    /\ inFlight = <<>>
    /\ latestOutcome = "none"
    /\ handler = "fetchConfig"

\* fetchConfig after /api/config has answered: config and simulatedModules
\* are set to the objects of the response, and the effect simulates
ConfigResponse ==
    /\ loading
    /\ handler' = "configResponse"
    /\ pageConfig' = "loaded"
    /\ fetchedModules' = enabledFields(config)
    /\ moduleObjects' = enabledFields(config)
    /\ simulatedModules' = "config"
    /\ loading' = FALSE
    /\ simulateConfiguration(moduleObjects', pagePlatform)
    /\ UNCHANGED <<serverVars, pagePlatform, simulationResult>>

\* fetchConfig after /api/config has failed
ConfigFailure ==
    /\ loading
    /\ handler' = "configFailure"
    /\ error' = [message |-> "Failed to fetch configuration"]
    /\ loading' = FALSE
    /\ UNCHANGED <<serverVars, pageConfig, fetchedModules, moduleObjects,
                   simulatedModules, pagePlatform, simulationResult, simulating,
                   inFlight, latestOutcome>>

\* the Retry button of the error page: fetchConfig
Retry ==
    /\ ~loading /\ error # Null /\ pageConfig = "null"
    /\ handler' = "fetchConfig"
    /\ loading' = TRUE
    /\ error' = Null
    /\ UNCHANGED <<serverVars, pageConfig, fetchedModules, moduleObjects,
                   simulatedModules, pagePlatform, simulationResult, simulating,
                   inFlight, latestOutcome>>

\* a toggle button (enabled while simulating is false): handleModuleToggle
\* (moduleId, !isEnabled) writes the enabled field of the module object the
\* shallow copy refers to, and the effect simulates
handleModuleToggle(moduleId) ==
    /\ Rendered
    /\ ~simulating
    /\ Len(inFlight) < MaxInFlight
    /\ handler' = "toggle"
    /\ moduleObjects' = [moduleObjects EXCEPT ![moduleId] = ~simulatedEnabled(moduleId)]
    /\ simulatedModules' = "copy"
    /\ simulateConfiguration(moduleObjects', pagePlatform)
    /\ UNCHANGED <<serverVars, loading, pageConfig, fetchedModules, pagePlatform,
                   simulationResult>>

\* the Reset button: handleReset sets simulatedModules to config.data.modules;
\* the effect simulates if that is another object than before
handleReset ==
    /\ Rendered
    /\ simulatedModules # "config" => Len(inFlight) < MaxInFlight
    /\ handler' = "reset"
    /\ simulatedModules' = "config"
    /\ IF simulatedModules # "config"
       THEN simulateConfiguration(moduleObjects, pagePlatform)
       ELSE noEffect
    /\ UNCHANGED <<serverVars, loading, pageConfig, fetchedModules, moduleObjects,
                   pagePlatform, simulationResult>>

\* a button of the PlatformSwitcher: setPlatform(p); the effect simulates if
\* the platform has changed
setPlatform(p) ==
    /\ Rendered
    /\ p # pagePlatform => Len(inFlight) < MaxInFlight
    /\ handler' = "platform"
    /\ pagePlatform' = p
    /\ IF p # pagePlatform
       THEN simulateConfiguration(moduleObjects, p)
       ELSE noEffect
    /\ UNCHANGED <<serverVars, loading, pageConfig, fetchedModules, moduleObjects,
                   simulatedModules, simulationResult>>

\* s without its n-th element
without(sq, n) == SubSeq(sq, 1, n - 1) \o SubSeq(sq, n + 1, Len(sq))

\* simulateConfiguration after its fetch: the n-th request in flight is
\* answered, with response.ok or not; the response to a request is written
\* as the request
SimulateResponse(n, ok) ==
    /\ n \in 1..Len(inFlight)
    /\ handler' = "simulateResponse"
    /\ inFlight' = without(inFlight, n)
    /\ IF ok
       THEN simulationResult' = inFlight[n] /\ UNCHANGED error
       ELSE error' = [message |-> "Failed to simulate configuration"]
            /\ UNCHANGED simulationResult
    /\ simulating' = FALSE
    /\ latestOutcome' = IF n < Len(inFlight) THEN latestOutcome
                        ELSE IF ok THEN "ok" ELSE "failed"
    /\ UNCHANGED <<serverVars, loading, pageConfig, fetchedModules, moduleObjects,
                   simulatedModules, pagePlatform>>

NextPage ==
    \/ ConfigResponse
    \/ ConfigFailure
    \/ Retry
    \/ \E moduleId \in PageModules : handleModuleToggle(moduleId)
    \/ handleReset
    \/ \E p \in Platform : setPlatform(p)
    \/ \E n \in 1..MaxInFlight, ok \in BOOLEAN : SimulateResponse(n, ok)

SpecPage == InitPage /\ [][NextPage]_vars

(***************************************************************************)
(* The parsers as a library: the evaluators and IgnoreParser.parse called  *)
(* on expressions and ignore texts built from small pools.  A call is one  *)
(* step; Return drops what the call left.                                  *)
(***************************************************************************)
\* values of .chezmoi.os a template compares with
OsNames == {"linux", "darwin", "windows", "freebsd", "Linux"}

\* operands of and / or: module checks, a platform check and a negation
OperandPool ==
    {".modules.shell.enabled", ".modules.git.enabled", "eq .chezmoi.os \"linux\"",
     "not .modules.shell.enabled"}

OperandLists == UNION {[1..n -> OperandPool] : n \in 1..MaxOperands}

\* expressions negated by not
ExpressionPool ==
    OperandPool \cup
    {".modules.ghost.enabled", ".modules.shell.zsh_extras", ".modules.shell.constructor",
     "and .modules.shell.enabled .modules.git.enabled",
     "or .modules.shell.enabled .modules.git.enabled",
     "eq .chezmoi.os \"darwin\"", "  .modules.git.enabled", "hasKey .modules \"x\""}

\* expressions of the grammar given to the evaluator of the ignore parser
GrammarPool == ExpressionPool \cup {"not " \o E : E \in ExpressionPool}

\* pairs of an expression and a spelling of it with other letter case in a
\* keyword or other white space between or around the tokens
VariantPairs ==
    {<<"not .modules.shell.enabled", "NOT .modules.shell.enabled">>,
     <<"not .modules.shell.enabled", "not   .modules.shell.enabled">>,
     <<"not .modules.shell.enabled", "  not .modules.shell.enabled ">>,
     <<"eq .chezmoi.os \"linux\"", "EQ .chezmoi.os \"linux\"">>,
     <<"eq .chezmoi.os \"linux\"", "eq  .chezmoi.os  \"linux\"">>,
     <<"eq .chezmoi.os \"linux\"", "eq\t.chezmoi.os \"linux\"">>,
     <<"and .modules.shell.enabled .modules.git.enabled",
       "And .modules.shell.enabled .modules.git.enabled">>,
     <<"and .modules.shell.enabled .modules.git.enabled",
       "and  .modules.shell.enabled   .modules.git.enabled">>,
     <<"or .modules.shell.enabled .modules.git.enabled",
       "OR .modules.shell.enabled .modules.git.enabled">>}

PatternLines == {"foo/**", "bar/**", ".bashrc"}

\* source paths given to FileMapper.mapFile
SourcePathPool ==
    {"dot_bashrc", "dot_config/shell/common.sh.tmpl", "executable_script",
     "executable_dir/notes.txt", "conf.tmpl/dot_file", "bin/executable_dot_tool.tmpl",
     "README.md", ".local/share", "", "/etc/hosts"}

\* glob patterns and paths given to IgnoreParser.shouldIgnore
GlobPool == {"**/bar", "foo/**", "*.md", "?.txt", ".bashrc", "src/*/x"}

GlobLists == UNION {[1..n -> GlobPool] : n \in 1..MaxPatterns}

FilePathPool ==
    {"a/bar", "foo/a/b", "README.md", "docs/README.md", "a.txt", "xbashrc", ".bashrc",
     "src/y/x"}

ifElseText(P, A, B) ==
    join(<<"{{- if eq .chezmoi.os \"" \o P \o "\" }}", A, "{{- else }}", B, "{{- end }}">>,
         "\n")

\* conditions of the blocks of the nested ignore texts
ConditionPool ==
    {"eq .chezmoi.os \"linux\"", ".modules.shell.enabled", "not .modules.git.enabled"}

\* an ignore text with a block in the first branch of another
nestedText(C1, C2) ==
    join(<<"{{- if " \o C1 \o " }}", "a", "{{- if " \o C2 \o " }}", "b", "{{- else }}",
           "c", "{{- end }}", "d", "{{- else }}", "e", "{{- end }}", "f">>, "\n")

\* ignore texts whose else and end lines have no open block
UnbalancedTexts ==
    {"{{- end }}\na",
     "{{- else }}\na\n{{- end }}\nb",
     "a\n{{- end }}\n{{- end }}\n  b  \n# c\n\n{{- else }}\nd",
     "{{- if eq .chezmoi.os \"linux\" }}\na\n{{- end }}\n{{- end }}\nb\n{{- else }}\nc"}

\* ignore texts with blank lines, comments, padded patterns and a marker that
\* is neither if, else nor end, inside and outside of blocks
MixedTexts ==
    {"  # note\n\n{{- if eq .chezmoi.os \"linux\" }}\n  x y \n# c\n\n{{- else }}\n\tz\n # d\n{{- end }}\n{{- foo }}\nw",
     " #a\n p \n{{- if .modules.git.enabled }}\n{{- bar }}\n#b\nq\n{{- end }}"}

\* configurations given to the parsers: those of the server, and one whose
\* shell module has zsh_extras off and whose git module has no enabled field
LibConfigPool ==
    ConfigPool \cup
    {Config([m \in {"shell", "git"} |->
                IF m = "shell"
                THEN [enabled |-> JBool(TRUE), zsh_extras |-> JBool(FALSE)]
                ELSE NoProps])}

\* module names of .modules.<name> predicates: configured ones, one that is
\* not configured, and one that only Object.prototype has
ModuleNames == {"shell", "git", "ghost", "constructor"}

PropertyNames == {"zsh_extras", "theme"}

\* expressions of none of the supported forms
UnknownPool ==
    {"", "true", ".chezmoi.hostname", "eq .chezmoi.arch \"amd64\"",
     "eq .chezmoi.os linux", "eq .chezmoi.os \"win-32\"", "lookPath \"git\"",
     ".modules."}

\* the evaluator named parser run on expr, as a JavaScript value
evaluateWith(parser, expr, cfg, plat, h) ==
    IF parser = "evaluate"
    THEN TemplateParser_evaluateCondition(expr, cfg, plat, h)
    ELSE JBool(IgnoreParser_evaluateCondition(expr, cfg, plat, h))

InitLib ==
    /\ config \in LibConfigPool
    /\ ignoreContent = ""
    /\ allSourceFiles = <<>>
    /\ heap = CleanHeap
    /\ Idle

Call(name, p) ==
    /\ op = "idle"
    /\ op' = name
    /\ platform' = p
    /\ moduleChanges' = NoChanges
    /\ status' = 0
    /\ payload' = ""
    /\ failure' = "none"
    /\ fetched' = {}
    /\ NoFiles
    /\ NoSimulation
    /\ NoParse
    /\ UNCHANGED <<config, ignoreContent, allSourceFiles, heap, pageVars>>

\* TemplateParser.evaluateCondition("and E1 E2 ...") and ("or E1 E2 ...")
EvaluateCompound(kw, es, p) ==
    /\ Call("evaluate", p)
    /\ keyword' = kw
    /\ operands' = es
    /\ expression' = kw \o " " \o join(es, " ")
    /\ value' = TemplateParser_evaluateCondition(expression', config, p, heap)
    /\ patterns' = <<>>

\* TemplateParser.evaluateCondition("not E")
EvaluateNot(E, p) ==
    /\ Call("evaluate", p)
    /\ keyword' = "not"
    /\ operands' = <<E>>
    /\ expression' = "not " \o E
    /\ value' = TemplateParser_evaluateCondition(expression', config, p, heap)
    /\ patterns' = <<>>

\* TemplateParser.evaluateCondition("eq .chezmoi.os \"name\"")
EvaluateEq(name, p) ==
    /\ Call("evaluate", p)
    /\ keyword' = "eq"
    /\ operands' = <<name>>
    /\ expression' = "eq .chezmoi.os \"" \o name \o "\""
    /\ value' = TemplateParser_evaluateCondition(expression', config, p, heap)
    /\ patterns' = <<>>

\* IgnoreParser.evaluateCondition("eq .chezmoi.os \"name\"")
IgnoreEvaluateEq(name, p) ==
    /\ Call("ignoreEvaluate", p)
    /\ keyword' = "eq"
    /\ operands' = <<name>>
    /\ expression' = "eq .chezmoi.os \"" \o name \o "\""
    /\ value' = JBool(IgnoreParser_evaluateCondition(expression', config, p, heap))
    /\ patterns' = <<>>

\* IgnoreParser.evaluateCondition(E)
IgnoreEvaluate(E, p) ==
    /\ Call("ignoreEvaluate", p)
    /\ keyword' = "grammar"
    /\ operands' = <<E>>
    /\ expression' = E
    /\ value' = JBool(IgnoreParser_evaluateCondition(E, config, p, heap))
    /\ patterns' = <<>>

\* TemplateParser.evaluateCondition on the second spelling of a pair
EvaluateVariant(pair, p) ==
    /\ Call("evaluate", p)
    /\ keyword' = "variant"
    /\ operands' = pair
    /\ expression' = pair[2]
    /\ value' = TemplateParser_evaluateCondition(pair[2], config, p, heap)
    /\ patterns' = <<>>

\* either evaluator on ".modules.<name>.enabled"
EvaluateEnabled(parser, name, p) ==
    /\ Call(parser, p)
    /\ keyword' = "enabled"
    /\ operands' = <<name>>
    /\ expression' = ".modules." \o name \o ".enabled"
    /\ value' = evaluateWith(parser, expression', config, p, heap)
    /\ patterns' = <<>>

\* either evaluator on ".modules.<name>.<property>"
EvaluateProperty(parser, name, property, p) ==
    /\ Call(parser, p)
    /\ keyword' = "property"
    /\ operands' = <<name, property>>
    /\ expression' = ".modules." \o name \o "." \o property
    /\ value' = evaluateWith(parser, expression', config, p, heap)
    /\ patterns' = <<>>

\* either evaluator on an expression of no supported form
EvaluateUnknown(parser, E, p) ==
    /\ Call(parser, p)
    /\ keyword' = "unknown"
    /\ operands' = <<E>>
    /\ expression' = E
    /\ value' = evaluateWith(parser, expression', config, p, heap)
    /\ patterns' = <<>>

\* FileMapper.mapFile(sourcePath)
MapFile(sourcePath) ==
    /\ op = "idle"
    /\ op' = "mapFile"
    /\ keyword' = "mapFile"
    /\ operands' = <<sourcePath>>
    /\ expression' = sourcePath
    /\ files' = <<mapFile(sourcePath)>>
    /\ value' = JUndefined
    /\ patterns' = <<>>
    /\ NoRequest
    /\ NoSimulation
    /\ NoParse
    /\ UNCHANGED <<config, ignoreContent, allSourceFiles, heap, pageVars>>

\* IgnoreParser.shouldIgnore(filePath, ignorePatterns)
ShouldIgnore(filePath, ignorePatterns) ==
    /\ op = "idle"
    /\ op' = "shouldIgnore"
    /\ keyword' = "shouldIgnore"
    /\ operands' = <<filePath>>
    /\ expression' = filePath
    /\ patterns' = ignorePatterns
    /\ value' = JBool(IgnoreParser_shouldIgnore(filePath, ignorePatterns))
    /\ NoRequest
    /\ NoFiles
    /\ NoSimulation
    /\ NoParse
    /\ UNCHANGED <<config, ignoreContent, allSourceFiles, heap, pageVars>>

\* IgnoreParser.parse on the text if eq .chezmoi.os "P" / A / else / B / end
ParseIfElse(P, A, B, p) ==
    /\ Call("parse", p)
    /\ keyword' = "if"
    /\ operands' = <<P, A, B>>
    /\ expression' = ifElseText(P, A, B)
    /\ value' = JUndefined
    /\ patterns' = IgnoreParser_parse(expression', config, p, heap)

\* IgnoreParser.parse(content, config, platform) before its loop: the content
\* is split into lines and the conditionStack starts as [true]
ParseBegin(kind, content, p) ==
    /\ op = "idle"
    /\ op' = "parsing"
    /\ platform' = p
    /\ moduleChanges' = NoChanges
    /\ status' = 0
    /\ payload' = ""
    /\ failure' = "none"
    /\ fetched' = {}
    /\ keyword' = kind
    /\ expression' = content
    /\ operands' = split(content, "\n")
    /\ value' = JUndefined
    /\ lineNo' = 0
    /\ conditionStack' = <<TRUE>>
    /\ patterns' = <<>>
    /\ NoFiles
    /\ NoSimulation
    /\ UNCHANGED <<config, ignoreContent, allSourceFiles, heap, pageVars>>

\* one iteration of the loop of IgnoreParser.parse
ParseStep ==
    /\ op = "parsing"
    /\ lineNo < Len(operands)
    /\ LET st == parseLine(operands[lineNo + 1],
                           [stack |-> conditionStack, patterns |-> patterns],
                           config, platform, heap)
       IN /\ conditionStack' = st.stack
          /\ patterns' = st.patterns
    /\ lineNo' = lineNo + 1
    /\ UNCHANGED <<config, ignoreContent, allSourceFiles, heap, op, platform,
                   moduleChanges, expression, keyword, operands, status, files,
                   baseConfig, simulatedConfig, baseFiles, simulatedFiles, filesAdded,
                   filesRemoved, totalFilesBefore, totalFilesAfter, value,
                   simulatedPatterns, payload, failure, fetched, pageVars>>

Return ==
    /\ \/ op \in {"evaluate", "ignoreEvaluate", "parse", "mapFile", "shouldIgnore"}
       \/ op = "parsing" /\ lineNo = Len(operands)
    /\ op' = "idle"
    /\ NoRequest
    /\ patterns' = <<>>
    /\ NoFiles
    /\ NoSimulation
    /\ NoEvaluation
    /\ NoParse
    /\ UNCHANGED <<config, ignoreContent, allSourceFiles, heap, pageVars>>

NextLib ==
    \/ \E kw \in {"and", "or"}, es \in OperandLists, p \in Platform :
          EvaluateCompound(kw, es, p)
    \/ \E E \in ExpressionPool, p \in Platform : EvaluateNot(E, p)
    \/ \E name \in OsNames, p \in Platform : EvaluateEq(name, p)
    \/ \E name \in OsNames, p \in Platform : IgnoreEvaluateEq(name, p)
    \/ \E E \in GrammarPool, p \in Platform : IgnoreEvaluate(E, p)
    \/ \E pair \in VariantPairs, p \in Platform : EvaluateVariant(pair, p)
    \/ \E parser \in {"evaluate", "ignoreEvaluate"}, name \in ModuleNames, p \in Platform :
          EvaluateEnabled(parser, name, p)
    \/ \E parser \in {"evaluate", "ignoreEvaluate"}, name \in ModuleNames,
          property \in PropertyNames, p \in Platform :
          EvaluateProperty(parser, name, property, p)
    \/ \E parser \in {"evaluate", "ignoreEvaluate"}, E \in UnknownPool, p \in Platform :
          EvaluateUnknown(parser, E, p)
    \/ \E P \in OsNames, A \in PatternLines, B \in PatternLines, p \in Platform :
          ParseIfElse(P, A, B, p)
    \/ \E sourcePath \in SourcePathPool : MapFile(sourcePath)
    \/ \E filePath \in FilePathPool, ignorePatterns \in GlobLists :
          ShouldIgnore(filePath, ignorePatterns)
    \/ \E C1 \in ConditionPool, C2 \in ConditionPool, p \in Platform :
          ParseBegin("nested", nestedText(C1, C2), p)
    \/ \E content \in UnbalancedTexts, p \in Platform : ParseBegin("unbalanced", content, p)
    \/ \E content \in MixedTexts, p \in Platform : ParseBegin("mixed", content, p)
    \/ ParseStep
    \/ Return

SpecLib == InitLib /\ [][NextLib]_vars

(***************************************************************************)
(* Properties of the ignore parser and of the conditional evaluator.       *)
(***************************************************************************)
\* C1: for the ignore text if eq .chezmoi.os "P" / A / else / B / end,
\* IgnoreParser.parse returns exactly [A] when the target platform is P and
\* exactly [B] on every other platform, whatever the configuration.
C1_IfElseSelectsBranch ==
    op = "parse" =>
        patterns = IF platform = operands[1] THEN <<operands[2]>> ELSE <<operands[3]>>

\* the text was parsed for a platform other than P and the else line came out
C1_Witness ==
    /\ op = "parse"
    /\ platform # operands[1]
    /\ operands[2] # operands[3]
    /\ patterns = <<operands[3]>>

\* module name is configured in cfg with its enabled flag set
EnabledIn(cfg, name) ==
    /\ name \in DOMAIN cfg.data.modules
    /\ "enabled" \in DOMAIN cfg.data.modules[name]
    /\ cfg.data.modules[name]["enabled"] = JBool(TRUE)

OperandTrue(E) == Truthy(TemplateParser_evaluateCondition(E, config, platform, heap))

\* C8: evaluateCondition on "and E1 E2 ..." is true iff every operand evaluates
\* to true, and on "or E1 E2 ..." iff at least one does, for operands that are
\* module checks, eq platform checks or not expressions.
C8_AndOrOverOperands ==
    (op = "evaluate" /\ keyword \in {"and", "or"}) =>
        value = JBool(IF keyword = "and"
                      THEN \A n \in 1..Len(operands) : OperandTrue(operands[n])
                      ELSE \E n \in 1..Len(operands) : OperandTrue(operands[n]))

\* C9: evaluateCondition("not E") is the logical negation of
\* evaluateCondition(E) for every expression, configuration and platform; "not
\* .modules.shell.enabled" is true on every platform when shell is disabled.
C9_NotNegates ==
    (op = "evaluate" /\ keyword = "not") =>
        /\ value = JBool(~OperandTrue(operands[1]))
        /\ (operands[1] = ".modules.shell.enabled" /\ ~EnabledIn(config, "shell"))
              => value = JBool(TRUE)

\* not .modules.shell.enabled was evaluated with shell disabled
C9_Witness ==
    /\ op = "evaluate"
    /\ keyword = "not"
    /\ operands = <<".modules.shell.enabled">>
    /\ ~EnabledIn(config, "shell")
    /\ value = JBool(TRUE)

\* C10: eq .chezmoi.os "<name>" evaluates to true iff <name> is the target
\* platform, in the template evaluator and in the ignore evaluator, whatever
\* the configuration.
C10_EqComparesPlatform ==
    (op \in {"evaluate", "ignoreEvaluate"} /\ keyword = "eq") =>
        value = JBool(operands[1] = platform)

\* a platform check was evaluated on a name that differs from the target
\* platform in case only
C10_Witness ==
    /\ op = "evaluate"
    /\ keyword = "eq"
    /\ operands = <<"Linux">>
    /\ platform = "linux"
    /\ value = JBool(FALSE)

\* truthiness of the field of module name in cfg; false when the module or
\* the field is not there
FieldOf(cfg, name, field) ==
    /\ name \in DOMAIN cfg.data.modules
    /\ field \in DOMAIN cfg.data.modules[name]
    /\ Truthy(cfg.data.modules[name][field])

\* C11: .modules.<name>.enabled evaluates to the enabled flag of the module,
\* and to false when the module is not in the module map, in both evaluators.
C11_EnabledFlag ==
    (op \in {"evaluate", "ignoreEvaluate"} /\ keyword = "enabled") =>
        Truthy(value) = FieldOf(config, operands[1], "enabled")

\* the flag of a module that is not configured was read as false
C11_Witness ==
    /\ op = "evaluate"
    /\ keyword = "enabled"
    /\ operands = <<"ghost">>
    /\ value = JBool(FALSE)

\* C12: .modules.<name>.<property>, property other than enabled, evaluates to
\* the truthiness of that field of the module record, and to false when the
\* module or the field is missing, in both evaluators.
C12_PropertyTruthiness ==
    (op \in {"evaluate", "ignoreEvaluate"} /\ keyword = "property") =>
        Truthy(value) = FieldOf(config, operands[1], operands[2])

\* C13: an expression of none of the supported forms evaluates to true in
\* both evaluators.
C13_UnknownIsTrue ==
    (op \in {"evaluate", "ignoreEvaluate"} /\ keyword = "unknown") =>
        value = JBool(TRUE)

\* a platform check whose name is not quoted was evaluated
C13_Witness ==
    /\ op = "evaluate"
    /\ keyword = "unknown"
    /\ expression = "eq .chezmoi.os linux"
    /\ value = JBool(TRUE)

(***************************************************************************)
(* Properties of the path mapper.                                          *)
(***************************************************************************)
\* C14, as the specification states it: the deploy path of every source path
\* begins with ~/.
C14_EveryDeployPathInHome ==
    op = "mapFile" => startsWith(files[1].deployPath, "~/")

\* C14: the deploy path FileMapper.mapFile produces begins with ~/ for every
\* source path that does not begin with /.
C14_RelativeDeployPathInHome ==
    (op = "mapFile" /\ ~startsWith(operands[1], "/")) =>
        startsWith(files[1].deployPath, "~/")

\* a path that begins neither with a dot nor with dot_ was mapped
C14_Witness ==
    /\ op = "mapFile"
    /\ operands = <<"README.md">>
    /\ files[1].deployPath = "~/README.md"

\* what the naming convention gives for source paths: the path below the home
\* directory, the template flag and the executable flag
Mapped(rel, isTemplate, isExecutable) ==
    [deployPath |-> "~/" \o rel, isTemplate |-> isTemplate, isExecutable |-> isExecutable]

ConventionOf(sourcePath) ==
    CASE sourcePath = "dot_bashrc" -> Mapped(".bashrc", FALSE, FALSE)
      [] sourcePath = "dot_config/shell/common.sh.tmpl"
            -> Mapped(".config/shell/common.sh", TRUE, FALSE)
      [] sourcePath = "executable_script" -> Mapped("script", FALSE, TRUE)
      [] sourcePath = "executable_dir/notes.txt"
            -> Mapped("executable_dir/notes.txt", FALSE, FALSE)
      [] sourcePath = "conf.tmpl/dot_file" -> Mapped("conf.tmpl/.file", FALSE, FALSE)
      [] sourcePath = "bin/executable_dot_tool.tmpl" -> Mapped("bin/.tool", TRUE, TRUE)
      [] sourcePath = "README.md" -> Mapped("README.md", FALSE, FALSE)
      [] sourcePath = ".local/share" -> Mapped(".local/share", FALSE, FALSE)

RECURSIVE GlobMatches(_, _, _, _)
GlobMatches(glob, i, path, j) ==
    IF i > Len(glob) THEN TRUE
    ELSE IF slice(glob, i, i + 1) = "**"
    THEN \E n \in 0..(Len(path) - j + 1) : GlobMatches(glob, i + 2, path, j + n)
    ELSE IF charAt(glob, i) = "*"
    THEN \E n \in 0..runLengthNot(path, j, "/") : GlobMatches(glob, i + 1, path, j + n)
    ELSE IF charAt(glob, i) = "?"
    THEN j <= Len(path) /\ GlobMatches(glob, i + 1, path, j + 1)
    ELSE j <= Len(path) /\ charAt(path, j) = charAt(glob, i)
         /\ GlobMatches(glob, i + 1, path, j + 1)

\* C16: in a compiled pattern ** matches any characters, * any characters but
\* /, ? exactly one character and a dot only a dot; shouldIgnore is true iff
\* at least one pattern matches the path from its start.
C16_GlobSemantics ==
    op = "shouldIgnore" =>
        value = JBool(\E n \in 1..Len(patterns) : GlobMatches(patterns[n], 1, operands[1], 1))

\* C22: the value the ignore parser computes for an expression is the one
\* TemplateParser.evaluateCondition computes for the same expression,
\* configuration and platform.
C22_SameAsConditionalEvaluator ==
    op = "ignoreEvaluate" =>
        Truthy(value) =
            Truthy(TemplateParser_evaluateCondition(expression, config, platform, heap))

\* C25: TemplateParser.evaluateCondition returns for an expression what it
\* returns for the same expression written with other letter case in its
\* keywords or other white space between its tokens.
C25_CaseAndSpaceTolerant ==
    op = "evaluate" /\ keyword = "variant" =>
        value = TemplateParser_evaluateCondition(operands[1], config, platform, heap)

(***************************************************************************)
(* Properties of the conditional blocks of IgnoreParser.parse.             *)
(***************************************************************************)
\* what a condition of the parsed texts says of the configuration and platform
CondHolds(C) ==
    CASE C = "eq .chezmoi.os \"linux\"" -> platform = "linux"
      [] C = ".modules.shell.enabled" -> EnabledIn(config, "shell")
      [] C = ".modules.git.enabled" -> EnabledIn(config, "git")
      [] C = "not .modules.git.enabled" -> ~EnabledIn(config, "git")

IsIfLine(line) == Len(line) > 10 /\ SubSeq(line, 1, 7) = "{{- if "

IsEndLine(line) == line = "{{- end }}"

\* the text between "{{- if " and " }}"
ConditionOf(line) == SubSeq(line, 8, Len(line) - 3)

Only(c, pattern) == IF c THEN <<pattern>> ELSE <<>>

\* the patterns of nestedText(C1, C2) that are outside every excluded branch
NestedExpected(c1, c2) ==
    Only(c1, "a") \o Only(c1 /\ c2, "b") \o Only(c1 /\ ~c2, "c") \o Only(c1, "d")
        \o Only(~c1, "e") \o <<"f">>

AllActive(stack) == \A i \in DOMAIN stack : stack[i]

\* C19: an if line pushes (top of the stack AND the value of its condition); a
\* pattern line is emitted only while every enclosing block is active, so the
\* patterns of a nested text are exactly those outside every excluded branch,
\* whatever the inner condition is.
C19_NestedBlocks ==
    [][op = "parsing" /\ lineNo' = lineNo + 1 =>
          LET line == operands[lineNo + 1]
          IN /\ IsIfLine(line) =>
                    conditionStack' =
                        Append(conditionStack,
                               conditionStack[Len(conditionStack)]
                                   /\ CondHolds(ConditionOf(line)))
             /\ patterns' # patterns => AllActive(conditionStack)
             /\ keyword = "nested" /\ lineNo' = Len(operands) =>
                    patterns' = NestedExpected(CondHolds(ConditionOf(operands[1])),
                                               CondHolds(ConditionOf(operands[3])))]_vars

\* the pattern of an inner block whose condition holds has been read inside an
\* excluded outer block, and was not emitted
C19_Witness ==
    /\ op = "parsing"
    /\ keyword = "nested"
    /\ lineNo = 4
    /\ ~CondHolds(ConditionOf(operands[1]))
    /\ CondHolds(ConditionOf(operands[3]))
    /\ conditionStack = <<TRUE, FALSE, FALSE>>
    /\ patterns = <<>>

\* the patterns of the unbalanced texts when their stray else and end lines
\* are no-ops
UnbalancedExpected ==
    CASE expression = "{{- end }}\na" -> <<"a">>
      [] expression = "{{- else }}\na\n{{- end }}\nb" -> <<"a", "b">>
      [] expression = "a\n{{- end }}\n{{- end }}\n  b  \n# c\n\n{{- else }}\nd"
           -> <<"a", "b", "d">>
      [] OTHER -> Only(platform = "linux", "a") \o <<"b", "c">>

StackNeverEmpty ==
    op = "parsing" =>
        /\ Len(conditionStack) >= 1
        /\ conditionStack[1] = TRUE
        /\ keyword = "unbalanced" /\ lineNo = Len(operands) => patterns = UnbalancedExpected

\* C20: the condition stack never has fewer than one element and its bottom
\* element is true; an end line met when the stack has one element changes
\* nothing, and the pattern lines after it are emitted as top-level lines.
C20_UnbalancedEnd ==
    /\ []StackNeverEmpty
    /\ [][op = "parsing" /\ lineNo' = lineNo + 1 /\ Len(conditionStack) = 1
              /\ IsEndLine(operands[lineNo + 1])
            => conditionStack' = conditionStack /\ patterns' = patterns]_vars

\* a text that starts with an end line has been parsed: its pattern is emitted
C20_Witness ==
    /\ op = "parsing"
    /\ keyword = "unbalanced"
    /\ expression = "{{- end }}\na"
    /\ lineNo = Len(operands)
    /\ conditionStack = <<TRUE>>
    /\ patterns = <<"a">>

\* how many times the pattern has been emitted
Emitted(pattern) == Cardinality({i \in DOMAIN patterns : patterns[i] = pattern})

\* C26: of the pattern directly in the if-branch and the pattern directly in
\* the else-branch of a block, never both are emitted; once the text is read,
\* exactly one of the two has been emitted (once) when the enclosing block is
\* active, which the top-level block always is and the inner block is when
\* the outer condition holds.
C26_BranchesExclusive ==
    op = "parsing" /\ keyword = "nested" =>
        /\ ~(Emitted("a") > 0 /\ Emitted("e") > 0)
        /\ ~(Emitted("b") > 0 /\ Emitted("c") > 0)
        /\ lineNo = Len(operands) =>
               /\ Emitted("a") + Emitted("e") = 1
               /\ CondHolds(ConditionOf(operands[1])) => Emitted("b") + Emitted("c") = 1

\* a nested text has been read whose outer condition holds and whose inner
\* condition does not: of the inner block the else-branch alone was emitted
C26_Witness ==
    /\ op = "parsing"
    /\ keyword = "nested"
    /\ lineNo = Len(operands)
    /\ CondHolds(ConditionOf(operands[1]))
    /\ ~CondHolds(ConditionOf(operands[3]))
    /\ patterns = <<"a", "c", "d", "f">>

\* the line without the white space at its two ends
Stripped(line) ==
    LET inked == {i \in 1..Len(line) : SubSeq(line, i, i) \notin WhiteSpace}
    IN IF inked = {} THEN ""
       ELSE SubSeq(line, CHOOSE i \in inked : \A j \in inked : i <= j,
                   CHOOSE i \in inked : \A j \in inked : i >= j)

\* a line that is neither blank, nor a comment, nor a conditional marker
IsPatternLine(line) ==
    LET t == Stripped(line)
    IN /\ t # ""
       /\ SubSeq(t, 1, 1) # "#"
       /\ ~(Len(t) >= 3 /\ SubSeq(t, 1, 3) = "{{-")

\* C21: each line read by IgnoreParser.parse either leaves the output as it
\* was or appends its own trimmed text to it, and it is appended exactly when
\* it is a pattern line (not blank, no comment, no marker) and the top of the
\* condition stack is true; the output is therefore a subsequence, in input
\* order, of the trimmed lines.
C21_EmitsActivePatternLines ==
    [][op = "parsing" /\ lineNo' = lineNo + 1 =>
          LET line == operands[lineNo + 1]
          IN patterns' = IF IsPatternLine(line) /\ conditionStack[Len(conditionStack)]
                         THEN Append(patterns, Stripped(line))
                         ELSE patterns]_vars

\* a text with comments, blank lines and an unknown marker in both branches
\* has been parsed on linux: the padded pattern of the if-branch and the
\* pattern after the block are the output
C21_Witness ==
    /\ op = "parsing"
    /\ keyword = "mixed"
    /\ platform = "linux"
    /\ lineNo = Len(operands)
    /\ Len(operands) = 12
    /\ patterns = <<"x y", "w">>

(***************************************************************************)
(* Properties of the two deployment resolvers and of the simulation.       *)
(***************************************************************************)
Qualifies(fs, cfg) ==
    \A n \in 1..Len(fs) :
        /\ platform \in Range(fs[n].platforms)
        /\ \A name \in Range(fs[n].requiredModules) : EnabledIn(cfg, name)

\* C2: every mapping a deployment resolution returns lists the target platform
\* among its platforms and requires only modules that are enabled in the
\* configuration the resolution was run with (GET /api/files, and both runs of
\* POST /api/simulate).
C2_ResolvedFilesQualify ==
    /\ op = "files" => Qualifies(files, config)
    /\ op = "simulate" => Qualifies(baseFiles, baseConfig)
                           /\ Qualifies(simulatedFiles, simulatedConfig)

\* a resolution returned a mapping that is gated by a module and restricted to
\* some platforms
C2_Witness ==
    /\ op = "files"
    /\ \E n \in 1..Len(files) :
           files[n].requiredModules # <<>> /\ Len(files[n].platforms) < 3

\* the source paths that would newly qualify when the simulated configuration
\* replaces the base one: gated by a module, on the target platform, all gating
\* modules enabled after but not all before
NewlyQualifying ==
    {n \in 1..Len(allSourceFiles) :
        LET m == buildFileMapping(allSourceFiles[n])
        IN /\ m.requiredModules # <<>>
           /\ platform \in Range(m.platforms)
           /\ \A name \in Range(m.requiredModules) : EnabledIn(simulatedConfig, name)
           /\ \E name \in Range(m.requiredModules) : ~EnabledIn(config, name)}

\* C3: enabling a module that is disabled in the base configuration makes
\* totalFilesAfter exceed totalFilesBefore by the number of newly qualifying
\* files; with shell disabled, source paths ["dot_bashrc"] and moduleChanges
\* {shell: true} the result is filesAdded = [~/.bashrc requiring shell],
\* filesRemoved = [], totalFilesBefore = 0, totalFilesAfter = 1.
C3_EnablingAddsGatedFiles ==
    (/\ op = "simulate"
     /\ ~EnabledIn(config, "shell")
     /\ moduleChanges = [k \in {"shell"} |-> TRUE])
    => /\ totalFilesAfter = totalFilesBefore + Cardinality(NewlyQualifying)
       /\ allSourceFiles = <<"dot_bashrc">>
          => /\ Len(filesAdded) = 1
             /\ filesAdded[1].deployPath = "~/.bashrc"
             /\ filesAdded[1].requiredModules = <<"shell">>
             /\ filesRemoved = <<>>
             /\ totalFilesBefore = 0
             /\ totalFilesAfter = 1

\* C4: when a simulation enables one module that was disabled, every file in
\* filesAdded has that module among its requiredModules.
C4_AddedFilesRequireModule ==
    \A name \in DOMAIN config.data.modules :
        (/\ op = "simulate"
         /\ ~EnabledIn(config, name)
         /\ moduleChanges = [k \in {name} |-> TRUE])
        => \A n \in 1..Len(filesAdded) : name \in Range(filesAdded[n].requiredModules)

\* C5: a file of the base deployed set all of whose gating modules are
\* disabled by the simulation is in filesRemoved.
C5_DisablingRemovesGatedFiles ==
    op = "simulate" =>
        \A n \in 1..Len(baseFiles) :
            LET gates == Range(inferModules(baseFiles[n].sourcePath))
            IN (/\ gates # {}
                /\ \A name \in gates : name \in DOMAIN moduleChanges /\ ~moduleChanges[name])
               => baseFiles[n] \in Range(filesRemoved)

\* position of source path in the upstream listing
Position(sourcePath) == CHOOSE n \in 1..Len(allSourceFiles) : allSourceFiles[n] = sourcePath

InSourceOrder(fs) ==
    \A i, j \in 1..Len(fs) : i < j => Position(fs[i].sourcePath) < Position(fs[j].sourcePath)

\* C6: filesAdded holds exactly the simulated entries whose deploy path no base
\* entry has, filesRemoved exactly the base entries whose deploy path no
\* simulated entry has; no deploy path is in both, and both lists follow the
\* order of the source path list.
C6_DiffByDeployPath ==
    op = "simulate" =>
        /\ Range(filesAdded) =
               {f \in Range(simulatedFiles) : f.deployPath \notin deployPaths(baseFiles)}
        /\ Range(filesRemoved) =
               {f \in Range(baseFiles) : f.deployPath \notin deployPaths(simulatedFiles)}
        /\ deployPaths(filesAdded) \cap deployPaths(filesRemoved) = {}
        /\ InSourceOrder(filesAdded)
        /\ InSourceOrder(filesRemoved)

\* a simulation whose simulated set has two entries for one deploy path, one of
\* them new, and which therefore adds no file
C6_Witness ==
    /\ op = "simulate"
    /\ Len(baseFiles) = 1
    /\ Len(simulatedFiles) = 2
    /\ simulatedFiles[1].deployPath = simulatedFiles[2].deployPath
    /\ filesAdded = <<>>

\* C7: the configuration applyModuleChanges returns differs from the base one
\* only in the enabled field of modules that are keys of moduleChanges and of
\* the module map; keys that are not in the module map add nothing and raise no
\* error; the base configuration is left as it was.
C7_OnlyEnabledOfNamedModules ==
    [][op' = "simulate" =>
          /\ status' = 200
          /\ baseConfig' = config
          /\ simulatedConfig'.data.gitUser = config.data.gitUser
          /\ DOMAIN simulatedConfig'.data.modules = DOMAIN config.data.modules
          /\ \A name \in DOMAIN config.data.modules :
                 LET before == config.data.modules[name]
                     after == simulatedConfig'.data.modules[name]
                 IN /\ DOMAIN after \ {"enabled"} = DOMAIN before \ {"enabled"}
                    /\ \A q \in DOMAIN before \ {"enabled"} : after[q] = before[q]
                    /\ name \notin DOMAIN moduleChanges' => after = before
                    /\ name \in DOMAIN moduleChanges'
                          => after["enabled"] = JBool(moduleChanges'[name])
          /\ heap' = heap]_vars

\* what GET /api/files returns for the upstream content and the platform of
\* the request being handled
FilesResolved ==
    getFiles(allSourceFiles, getIgnorePatterns(ignoreContent, config, platform, heap),
             config, platform, heap)

\* C23: the base run of a simulation finds the files that GET /api/files
\* returns for the same listing, configuration, ignore text and platform:
\* totalFilesBefore is that resolver's totalFiles and the deploy paths are the
\* same.
C23_BaseRunIsFilesResolver ==
    op = "simulate" /\ status = 200 =>
        /\ totalFilesBefore = Len(FilesResolved)
        /\ deployPaths(baseFiles) = deployPaths(FilesResolved)

\* some pattern matches the path from its start
MatchesSome(path, ignorePatterns) ==
    \E n \in 1..Len(ignorePatterns) : GlobMatches(ignorePatterns[n], 1, path, 1)

WithoutHome(deployPath) ==
    IF Len(deployPath) >= 2 /\ SubSeq(deployPath, 1, 2) = "~/"
    THEN SubSeq(deployPath, 3, Len(deployPath)) ELSE deployPath

ChangesNothing ==
    \A name \in DOMAIN moduleChanges \cap DOMAIN config.data.modules :
        EnabledIn(config, name) = moduleChanges[name]

\* C27: a simulation whose moduleChanges gives every module it names the
\* enabled value the module has in the base configuration (the empty
\* moduleChanges included) returns empty filesAdded and filesRemoved and equal
\* totals.
C27_NoChangeNoDiff ==
    op = "simulate" /\ status = 200 /\ ChangesNothing =>
        /\ filesAdded = <<>>
        /\ filesRemoved = <<>>
        /\ totalFilesBefore = totalFilesAfter

\* a simulation that disables the disabled shell module, with an ignore pattern
\* that depends on the module active and a file deployed
C27_Witness ==
    /\ op = "simulate"
    /\ moduleChanges = [m \in {"shell"} |-> FALSE]
    /\ ~EnabledIn(config, "shell")
    /\ patterns = <<"dot_bashrc.tmpl">>
    /\ simulatedPatterns = <<"dot_bashrc.tmpl">>
    /\ totalFilesBefore = 1
    /\ filesAdded = <<>>

(***************************************************************************)
(* Properties of the error handling of the two request handlers.           *)
(***************************************************************************)
NothingComputed ==
    /\ baseConfig = NoConfig
    /\ simulatedConfig = NoConfig
    /\ patterns = <<>>
    /\ simulatedPatterns = <<>>
    /\ baseFiles = <<>>
    /\ simulatedFiles = <<>>
    /\ filesAdded = <<>>
    /\ filesRemoved = <<>>
    /\ totalFilesBefore = 0
    /\ totalFilesAfter = 0

\* C17: a simulation request whose moduleChanges payload is missing or is not
\* an object of module changes is answered with status 400, before anything is
\* fetched, parsed or resolved: it ends neither in a 5xx status nor in a diff.
C17_MalformedRejected ==
    op = "simulate" /\ payload # "object" =>
        /\ status = 400
        /\ fetched = {}
        /\ NothingComputed

\* C18: a request during which an upstream fetch fails ends in an error
\* status, and returns no file list and no diff.
C18_FetchFailureAborts ==
    op \in {"files", "simulate"} /\ failure # "none" /\ fetched # {} =>
        /\ status >= 400
        /\ files = <<>>
        /\ NothingComputed

(***************************************************************************)
(* Properties of the simulator page.                                       *)
(***************************************************************************)
\* C28: toggling never changes the configuration held in config, and after
\* Reset every module of the simulated module state has the enabled value the
\* fetched configuration had.
C28_ResetRestoresFetched ==
    /\ pageConfig = "loaded" =>
           \A m \in DOMAIN fetchedModules : configEnabled(m) = fetchedModules[m]
    /\ handler = "reset" =>
           \A m \in DOMAIN fetchedModules : simulatedEnabled(m) = fetchedModules[m]

\* C29: when no request is in flight, the request sent last was answered with
\* success and no answer since has failed, simulationResult is the response
\* to the request built from the current module selection and platform.
C29_ResultIsCurrent ==
    Rendered /\ inFlight = <<>> /\ latestOutcome = "ok" /\ error = Null =>
        simulationResult = requestBody([m \in DOMAIN moduleObjects |-> simulatedEnabled(m)],
                                       pagePlatform)

\* C30: simulating is true whenever a request is in flight.
C30_SimulatingWhileInFlight == inFlight # <<>> => simulating

====
